---- MODULE Spec2Model ----
(***************************************************************************)
(* MBRScan._generator (volatility3/framework/plugins/windows/mbrscan.py)   *)
(* as a state machine.  A pass is one generator object returned through    *)
(* MBRScan.run; its consumer resumes it (next) or abandons it.  The        *)
(* physical layer is the byte-addressable address space the generator      *)
(* scans for the two-byte signature and reads the candidate sectors from.  *)
(***************************************************************************)
EXTENDS Integers, Sequences, FiniteSets

VARIABLES layer, pc, scan_pos, offset, partition_table, full_mbr, all_zeros,
          records, log, reads, requests, failure, hist

vars == <<layer, pc, scan_pos, offset, partition_table, full_mbr, all_zeros,
          records, log, reads, requests, failure, hist>>

(* ------------------------------ bounds --------------------------------- *)

\* size in bytes of the physical layer
LayerSize == 1024

\* length of a truncated reply of layer.read (shorter than the boot code)
ShortLen == 100

\* places where a layer of the model may hold the signature
MagicPositions == {200, 510, LayerSize - 2}

\* places where a layer of the model may hold another non-zero byte
NonZeroPositions == {120}

\* the generator objects: two independent passes over the same layer
Passes == {"A", "B"}

(* ------------------------- program constants --------------------------- *)

mbr_signature == <<85, 170>>

mbr_length == 512

boot_code_length == 440

(* --------------------------- the layer --------------------------------- *)

Layers == [magics : SUBSET MagicPositions, nonzero : SUBSET NonZeroPositions]

\* the byte of layer l at address a, 0 <= a < LayerSize
Byte(l, a) ==
    IF a \in l.magics THEN mbr_signature[1]
    ELSE IF (a - 1) \in l.magics THEN mbr_signature[2]
    ELSE IF a \in l.nonzero THEN 144
    ELSE 0

InSpace(a) == 0 <= a /\ a < LayerSize

\* the signature occurs in layer l at address p (p is its first byte)
MatchAt(l, p) ==
    \A i \in 1..Len(mbr_signature) :
        InSpace(p + i - 1) /\ Byte(l, p + i - 1) = mbr_signature[i]

\* the matches of layer.scan not yet reported: those at or after address from
Matches(l, from) == {p \in from..(LayerSize - 1) : MatchAt(l, p)}

SetMin(S) == CHOOSE x \in S : \A y \in S : x <= y

\* layer.read(start, length, pad = True): exactly length bytes, zero-filled
\* outside the space
LayerRead(l, start, length) ==
    [i \in 1..length |-> IF InSpace(start + i - 1) THEN Byte(l, start + i - 1) ELSE 0]

\* what a read may hand back: the padded window, or a prefix of it
ReplyLens == {0, ShortLen, mbr_length}

Min(a, b) == IF a < b THEN a ELSE b

(* ------------------------ the generator's code ------------------------- *)

MbrStartOffset_wrong(off) == off - mbr_length

\* line 53
MbrStartOffset(off) == off - (mbr_length - Len(mbr_signature))

\* line 57: full_mbr[:boot_code_length]
BootCode(mbr) == SubSeq(mbr, 1, Min(boot_code_length, Len(mbr)))

\* bytes.count(b"\x00")
CountZero(b) == Cardinality({i \in 1..Len(b) : b[i] = 0})

AllZeros_wrong(prev, boot_code) ==
    IF Len(boot_code) > 0
    THEN (IF CountZero(boot_code) = mbr_length THEN "True" ELSE "False")
    ELSE prev

\* lines 59-60: the local all_zeros after the if statement; prev is the value
\* the local held before it ("unbound" when never assigned)
AllZeros(prev, boot_code) ==
    IF Len(boot_code) > 0
    THEN (IF CountZero(boot_code) = Len(boot_code) THEN "True" ELSE "False")
    ELSE prev

Record_wrong(off, boot_code) ==
    [offset |-> mbr_length, boot_code |-> boot_code]

\* lines 74-82: the yielded tuple, its first field and its boot-code bytes
Record(off, boot_code) ==
    [offset |-> off, boot_code |-> boot_code]

LogReject_wrong(lg, off) == lg

\* line 84
LogReject(lg, off) == Append(lg, off)

ReadFailurePc_wrong == "scan"

\* lines 52-57: no handler surrounds layer.read, the exception leaves the generator
ReadFailurePc == "raised"

YieldPc_wrong == "scan"

\* line 74: the generator is suspended at yield until it is resumed
YieldPc == "suspended"

(* ------------------------------ actions -------------------------------- *)

\* the state once run has been called for the passes of S: each holds a
\* generator that has not started; the other passes hold none
InitWith(S) ==
    /\ layer \in Layers
    /\ pc = [g \in Passes |-> IF g \in S THEN "created" ELSE "absent"]
    /\ scan_pos = [g \in Passes |-> 0]
    /\ offset = [g \in Passes |-> 0]
    /\ partition_table = [g \in Passes |-> 0]
    /\ full_mbr = [g \in Passes |-> <<>>]
    /\ all_zeros = [g \in Passes |-> "unbound"]
    /\ records = [g \in Passes |-> <<>>]
    /\ log = [g \in Passes |-> <<>>]
    /\ reads = [g \in Passes |-> <<>>]
    /\ requests = [g \in Passes |-> 0]
    /\ failure = [g \in Passes |-> "none"]
    /\ hist = [g \in Passes |-> <<>>]

\* the consumer asks for the next record: the generator starts or resumes
ConsumerNext(g) ==
    /\ pc[g] \in {"created", "suspended"}
    /\ pc' = [pc EXCEPT ![g] = "scan"]
    /\ requests' = [requests EXCEPT ![g] = @ + 1]
    /\ UNCHANGED <<layer, scan_pos, offset, partition_table, full_mbr, all_zeros,
                   records, log, reads, failure, hist>>

\* the consumer stops consuming: the generator is never resumed
ConsumerStop(g) ==
    /\ pc[g] \in {"created", "suspended"}
    /\ pc' = [pc EXCEPT ![g] = "closed"]
    /\ UNCHANGED <<layer, scan_pos, offset, partition_table, full_mbr, all_zeros,
                   records, log, reads, requests, failure, hist>>

\* lines 52-54: the for loop draws the next match, the view is constructed
ScanHit(g) ==
    /\ pc[g] = "scan"
    /\ Matches(layer, scan_pos[g]) # {}
    /\ LET p == SetMin(Matches(layer, scan_pos[g])) IN
        /\ offset' = [offset EXCEPT ![g] = p]
        /\ scan_pos' = [scan_pos EXCEPT ![g] = p + 1]
        /\ partition_table' = [partition_table EXCEPT ![g] = MbrStartOffset(p)]
    /\ pc' = [pc EXCEPT ![g] = "read"]
    /\ UNCHANGED <<layer, full_mbr, all_zeros, records, log, reads, requests,
                   failure, hist>>

\* line 52: the scan is exhausted, the generator returns
ScanEnd(g) ==
    /\ pc[g] = "scan"
    /\ Matches(layer, scan_pos[g]) = {}
    /\ pc' = [pc EXCEPT ![g] = "done"]
    /\ scan_pos' = [scan_pos EXCEPT ![g] = LayerSize]
    /\ UNCHANGED <<layer, offset, partition_table, full_mbr, all_zeros, records,
                   log, reads, requests, failure, hist>>

\* line 56: layer.read returns n bytes
ReadOk(g, n) ==
    /\ pc[g] = "read"
    /\ reads' = [reads EXCEPT ![g] = Append(@, MbrStartOffset(offset[g]))]
    /\ full_mbr' = [full_mbr EXCEPT ![g] =
                        SubSeq(LayerRead(layer, MbrStartOffset(offset[g]), mbr_length), 1, n)]
    /\ pc' = [pc EXCEPT ![g] = "validate"]
    /\ UNCHANGED <<layer, scan_pos, offset, partition_table, all_zeros, records,
                   log, requests, failure, hist>>

\* line 56: layer.read raises
ReadFail(g) ==
    /\ pc[g] = "read"
    /\ reads' = [reads EXCEPT ![g] = Append(@, MbrStartOffset(offset[g]))]
    /\ failure' = [failure EXCEPT ![g] = "read"]
    /\ pc' = [pc EXCEPT ![g] = ReadFailurePc]
    /\ UNCHANGED <<layer, scan_pos, offset, partition_table, full_mbr, all_zeros,
                   records, log, requests, hist>>

\* lines 57-82: the boot code is not all zero, the record is yielded
Emit(g) ==
    /\ pc[g] = "validate"
    /\ LET boot_code == BootCode(full_mbr[g])
           az == AllZeros(all_zeros[g], boot_code) IN
        /\ az = "False"
        /\ all_zeros' = [all_zeros EXCEPT ![g] = az]
        /\ records' = [records EXCEPT ![g] = Append(@, Record(offset[g], boot_code))]
        /\ hist' = [hist EXCEPT ![g] = Append(@,
               [offset |-> offset[g], full_mbr |-> full_mbr[g], outcome |-> "emit"])]
    /\ pc' = [pc EXCEPT ![g] = YieldPc]
    /\ UNCHANGED <<layer, scan_pos, offset, partition_table, full_mbr, log, reads,
                   requests, failure>>

\* lines 57-62, 83-84: the boot code is all zero, the hit is logged
Reject(g) ==
    /\ pc[g] = "validate"
    /\ LET boot_code == BootCode(full_mbr[g])
           az == AllZeros(all_zeros[g], boot_code) IN
        /\ az = "True"
        /\ all_zeros' = [all_zeros EXCEPT ![g] = az]
        /\ log' = [log EXCEPT ![g] = LogReject(@, offset[g])]
        /\ hist' = [hist EXCEPT ![g] = Append(@,
               [offset |-> offset[g], full_mbr |-> full_mbr[g], outcome |-> "reject"])]
    /\ pc' = [pc EXCEPT ![g] = "scan"]
    /\ UNCHANGED <<layer, scan_pos, offset, partition_table, full_mbr, records,
                   reads, requests, failure>>

\* lines 59-62: all_zeros is read before any assignment (UnboundLocalError)
Unbound(g) ==
    /\ pc[g] = "validate"
    /\ LET boot_code == BootCode(full_mbr[g])
           az == AllZeros(all_zeros[g], boot_code) IN
        /\ az = "unbound"
        /\ hist' = [hist EXCEPT ![g] = Append(@,
               [offset |-> offset[g], full_mbr |-> full_mbr[g], outcome |-> "raise"])]
    /\ failure' = [failure EXCEPT ![g] = "unbound"]
    /\ pc' = [pc EXCEPT ![g] = "raised"]
    /\ UNCHANGED <<layer, scan_pos, offset, partition_table, full_mbr, all_zeros,
                   records, log, reads, requests>>

Next ==
    \/ \E g \in Passes : ConsumerNext(g)
    \/ \E g \in Passes : ConsumerStop(g)
    \/ \E g \in Passes : ScanHit(g)
    \/ \E g \in Passes : ScanEnd(g)
    \/ \E g \in Passes, n \in ReplyLens : ReadOk(g, n)
    \/ \E g \in Passes : ReadFail(g)
    \/ \E g \in Passes : Emit(g)
    \/ \E g \in Passes : Reject(g)
    \/ \E g \in Passes : Unbound(g)

\* run is called once
Init == InitWith({"A"})

\* run is called twice over the same layer
InitTwice == InitWith(Passes)

Spec == Init /\ [][Next]_vars

SpecTwice == InitTwice /\ [][Next]_vars

(* ------------------------- derived quantities -------------------------- *)

\* the hits of pass g that ended in a yielded record, in the order processed
Emitted(g) == SelectSeq(hist[g], LAMBDA h : h.outcome = "emit")

\* the hits of pass g that ended in a log entry, in the order processed
Rejected(g) == SelectSeq(hist[g], LAMBDA h : h.outcome = "reject")

IsAllZero(b) == \A i \in 1..Len(b) : b[i] = 0

StrictlyAscending(s) == \A i, j \in 1..Len(s) : i < j => s[i] < s[j]

PassState(g) ==
    <<pc[g], scan_pos[g], offset[g], partition_table[g], full_mbr[g], all_zeros[g],
      records[g], log[g], reads[g], requests[g], failure[g], hist[g]>>

Running(g) == pc[g] \in {"scan", "read", "validate"}

(* ------------------------------- claims -------------------------------- *)

\* C1: no emitted record comes from a sector whose boot code (the first 440
\* bytes of the buffer read for the hit, when the buffer holds any) consists
\* of 0x00 bytes only; an all-zero 512-byte sector is never emitted.
C1_ZeroBootCodeNeverEmitted ==
    \A g \in Passes :
        /\ \A k \in 1..Len(hist[g]) :
              LET bc == BootCode(hist[g][k].full_mbr) IN
              (Len(bc) > 0 /\ IsAllZero(bc)) => hist[g][k].outcome # "emit"
        /\ \A i \in 1..Len(records[g]) :
              LET bc == records[g][i].boot_code IN
              Len(bc) > 0 => ~IsAllZero(bc)

\* a 512-byte sector with an all-zero boot code was processed after a record
\* had been emitted in the same pass
C1_Witness ==
    \E g \in Passes : \E k \in 1..Len(hist[g]) :
        /\ Len(hist[g][k].full_mbr) = mbr_length
        /\ IsAllZero(BootCode(hist[g][k].full_mbr))
        /\ hist[g][k].outcome = "reject"
        /\ \E j \in 1..(k - 1) : hist[g][j].outcome = "emit"

\* C2 (as claimed): the first field of every emitted record is the sector
\* start p - 510 of the hit at match offset p.
C2_RecordOffsetIsSectorStart ==
    \A g \in Passes :
        /\ Len(records[g]) = Len(Emitted(g))
        /\ \A i \in 1..Len(records[g]) :
              records[g][i].offset = Emitted(g)[i].offset - 510

\* C3: every hit whose processing finishes ends in exactly one record and no
\* log entry, or in exactly one log entry and no record; after a complete
\* pass the records and log entries together number the scan hits; a hit
\* whose (non-empty) boot code is all zero gives a log entry and no record.
C3_EmitOrReject ==
    \A g \in Passes :
        /\ Len(records[g]) = Len(Emitted(g))
        /\ Len(log[g]) = Len(Rejected(g))
        /\ \A i \in 1..Len(log[g]) : log[g][i] = Rejected(g)[i].offset
        /\ \A i \in 1..Len(records[g]) :
              records[g][i].boot_code = BootCode(Emitted(g)[i].full_mbr)
        /\ pc[g] = "done" =>
              /\ Len(records[g]) + Len(log[g]) = Cardinality(Matches(layer, 0))
              /\ Len(hist[g]) = Cardinality(Matches(layer, 0))
        /\ \A k \in 1..Len(hist[g]) :
              LET bc == BootCode(hist[g][k].full_mbr) IN
              (Len(bc) > 0 /\ IsAllZero(bc)) => hist[g][k].outcome = "reject"

\* a complete pass that emitted a record for one hit and logged another
C3_Witness ==
    \E g \in Passes :
        /\ pc[g] = "done"
        /\ Len(records[g]) >= 1
        /\ Len(log[g]) >= 1

\* C4: the records of a pass are in strictly ascending order of physical
\* offset, and the i-th record is the one made from the i-th emitted hit in
\* scan order: nothing is reordered, duplicated or emitted without a hit.
C4_RecordsAscendInScanOrder ==
    \A g \in Passes :
        /\ StrictlyAscending([i \in 1..Len(records[g]) |-> records[g][i].offset])
        /\ StrictlyAscending([k \in 1..Len(hist[g]) |-> hist[g][k].offset])
        /\ Len(records[g]) = Len(Emitted(g))
        /\ \A i \in 1..Len(records[g]) :
              /\ records[g][i].boot_code = BootCode(Emitted(g)[i].full_mbr)
              /\ MatchAt(layer, Emitted(g)[i].offset)

\* a pass emitted two records
C4_Witness == \E g \in Passes : Len(records[g]) >= 2

\* C5 (as claimed): no read is issued and no partition-table view constructed
\* at a negative offset, and no record derives from a negative sector start.
C5_NoNegativeSectorStart ==
    \A g \in Passes :
        /\ \A i \in 1..Len(reads[g]) : reads[g][i] >= 0
        /\ partition_table[g] >= 0
        /\ \A i \in 1..Len(Emitted(g)) : MbrStartOffset(Emitted(g)[i].offset) >= 0

\* C6 (as claimed): a hit whose boot-code slice is empty is rejected (logged),
\* never emitted and never the cause of an exception.
C6_EmptySliceRejected ==
    \A g \in Passes : \A k \in 1..Len(hist[g]) :
        Len(BootCode(hist[g][k].full_mbr)) = 0 => hist[g][k].outcome = "reject"

\* C7 (as claimed): two passes that agree on the offset and the sector bytes
\* of their k-th hit reach the same outcome for it, whatever came before.
C7_NoCrossHitState ==
    \A a, b \in Passes : \A k \in 1..Min(Len(hist[a]), Len(hist[b])) :
        (/\ hist[a][k].offset = hist[b][k].offset
         /\ hist[a][k].full_mbr = hist[b][k].full_mbr)
            => hist[a][k].outcome = hist[b][k].outcome

\* C8: a failed sector read is not caught: the pass ends there, the read was
\* issued once, no record or log entry exists for the hit, and nothing of the
\* pass (its records included) changes afterwards.
C8_ReadFailureAborts ==
    [][\A g \in Passes :
          /\ failure[g] = "read" => (pc[g] = "raised" /\ PassState(g)' = PassState(g))
          /\ failure'[g] = "read" =>
                /\ pc'[g] = "raised"
                /\ Len(reads'[g]) = Len(hist'[g]) + 1
                /\ Len(records'[g]) + Len(log'[g]) = Len(hist'[g])
                /\ \A i, j \in 1..Len(reads'[g]) : reads'[g][i] = reads'[g][j] => i = j
                /\ records'[g] = records[g]
                /\ log'[g] = log[g]]_vars

\* a sector read failed in a pass that had already emitted a record
C8_Witness ==
    \E g \in Passes :
        /\ failure[g] = "read"
        /\ pc[g] = "raised"
        /\ Len(records[g]) >= 1
        /\ Matches(layer, scan_pos[g]) # {}

\* C9: the generator runs only while a request of the consumer is
\* outstanding; a read is issued only when every earlier hit has its outcome;
\* once the consumer has stopped after m records, the pass does nothing more
\* and the scan stands right after the hit of the m-th record.
C9_PullDriven ==
    [][\A g \in Passes :
          /\ Running(g)' => requests'[g] = Len(records'[g]) + 1
          /\ pc'[g] \in {"suspended", "closed"} => requests'[g] = Len(records'[g])
          /\ pc'[g] = "read" =>
                /\ Len(hist'[g]) = Len(reads'[g])
                /\ Len(records'[g]) + Len(log'[g]) = Len(hist'[g])
          /\ pc[g] = "closed" => PassState(g)' = PassState(g)
          /\ pc'[g] = "closed" =>
                scan_pos'[g] = IF Len(records'[g]) = 0 THEN 0
                               ELSE records'[g][Len(records'[g])].offset + 1]_vars

\* the consumer stopped after one record while a later hit was still unscanned
C9_Witness ==
    \E g \in Passes :
        /\ pc[g] = "closed"
        /\ Len(records[g]) = 1
        /\ Matches(layer, scan_pos[g]) # {}

\* C10: for a hit at p >= 510 (p the address of the first signature byte) the
\* window read, [p - 510, p + 2), lies inside the layer, and a 512-byte buffer
\* read for it holds the layer's bytes with 0x55, 0xAA at indices 510, 511.
C10_WindowInsideAndSigned ==
    \A g \in Passes : \A k \in 1..Len(hist[g]) :
        LET p == hist[g][k].offset
            start == reads[g][k]
            mbr == hist[g][k].full_mbr IN
        p >= 510 =>
            /\ start >= 0
            /\ start + mbr_length = p + 2
            /\ start + mbr_length <= LayerSize
            /\ Len(mbr) = mbr_length =>
                  /\ mbr[511] = 85
                  /\ mbr[512] = 170
                  /\ \A i \in 1..mbr_length : mbr[i] = Byte(layer, start + i - 1)

\* a 512-byte sector of a hit at p >= 510 was emitted
C10_Witness ==
    \E g \in Passes : \E k \in 1..Len(hist[g]) :
        /\ hist[g][k].offset >= 510
        /\ Len(hist[g][k].full_mbr) = mbr_length
        /\ hist[g][k].outcome = "emit"

====
